---- MODULE Spec2Model ----
(***************************************************************************)
(* Model of Cipscis/activate 2.0.0 (TypeScript, Map registry):             *)
(* activate / deactivate bind and unbind a callback as click listener of   *)
(* an element together with generated Space (keyup) and Enter (keydown)    *)
(* wrappers, and keep a registry (boundEvents) of the wrappers generated.  *)
(*                                                                         *)
(* The DOM side is modelled by what addEventListener/removeEventListener   *)
(* do: a listener list per element and event type that never holds the     *)
(* same function object twice, hence a set of function identities.  A      *)
(* generated wrapper is a closure: every call of _makeSpacebarFn or        *)
(* _makeEnterFn yields a new identity, numbered by the counter "made".     *)
(***************************************************************************)
EXTENDS Integers, Sequences, FiniteSets, TLC

(* ------------------------------ bounds -------------------------------- *)

\* Closures _makeSpacebarFn/_makeEnterFn may create in one behaviour.
MaxMade == 6

\* Key events one held key produces in one dispatch (key repeat).
MaxRepeat == 2

\* The most closures created in a behaviour over the two-element document.
MaxPairMade == 4

\* The longest NodeList passed as a target.
MaxList == 2

(* --------------------------- the host's values ------------------------ *)

\* The element handles of the document.
Document == {"e1"}

\* The elements of the two-element document the dispatcher is exercised on.
DocumentPair == {"e1", "e2"}

\* The element classes the code tells apart (instanceof HTMLButtonElement,
\* HTMLAnchorElement, HTMLInputElement/HTMLTextAreaElement, anything else).
Tags == {"button", "a", "span", "input"}

\* tagName[e]: the class of element e, fixed when the element is created.
VARIABLE tagName

\* The elements that exist.
Elements == DOMAIN tagName

\* The callbacks callers pass as fn.
Fns == {"F1", "F2"}

\* The event types the module listens to.
EventTypes == {"click", "keyup", "keydown"}

\* An event without a key value (e.key is undefined).
NoKey == "<undefined>"

\* The key values of the keyboard events dispatched.
Keys == {" ", "Spacebar", "Enter", "ENTER", "a", "", NoKey}

IsHTMLElement(x) == x \in Elements

\* Faulty variant: no element is taken for a button.
IsButtonNever(element) == FALSE

IsButton(element) == tagName[element] = "button"

IsAnchor(element) == tagName[element] = "a"

IsInput(element) == tagName[element] \in {"input", "textarea"}

\* The key values the classification is examined on: those dispatched and
\* further spellings and near misses.
KeyValues ==
    Keys \cup {"SPACEBAR", "spacebar", "SpaceBar", "enter", "eNTER", "Space",
               "space", "  ", "Enter ", "A"}

\* Faulty variant: the key name is taken as it is.
ToLowerCaseIdentity(s) == s

\* String.prototype.toLowerCase on the key values used here.
ToLowerCase(s) ==
    CASE s = "Spacebar" -> "spacebar"
      [] s = "SPACEBAR" -> "spacebar"
      [] s = "SpaceBar" -> "spacebar"
      [] s = "Enter"    -> "enter"
      [] s = "ENTER"    -> "enter"
      [] s = "eNTER"    -> "enter"
      [] s = "Space"    -> "space"
      [] s = "Enter "   -> "enter "
      [] s = "A"        -> "a"
      [] OTHER          -> s

\* JavaScript truthiness of e.key: undefined and the empty string are falsy.
Truthy(key) == key # NoKey /\ key # ""

(* ----------------------- listeners and wrappers ----------------------- *)

\* No function object (an absent optional field of ActivateBinding).
NoFn == [kind |-> "none", fn |-> "-", id |-> 0]

\* The one module-level function _preventSpacebarScroll.
PreventSpacebarScroll == [kind |-> "scroll", fn |-> "-", id |-> 0]

\* The closure a call of _makeSpacebarFn(fn) returns; id is its identity.
MakeSpacebarFn(fn, id) == [kind |-> "space", fn |-> fn, id |-> id]

\* The closure a call of _makeEnterFn(fn) returns; id is its identity.
MakeEnterFn(fn, id) == [kind |-> "enter", fn |-> fn, id |-> id]

\* Faulty variant: the key name is compared without toLowerCase().
IsEnterCaseSensitive(key) == Truthy(key) /\ key = "enter"

IsEnter(key) == Truthy(key) /\ ToLowerCase(key) = "enter"

\* Faulty variant: only the legacy key name is accepted.
IsSpacebarLegacyOnly(key) == Truthy(key) /\ ToLowerCase(key) = "spacebar"

IsSpacebar(key) == Truthy(key) /\ (key = " " \/ ToLowerCase(key) = "spacebar")

(* ------------------------------ registry ------------------------------ *)

\* What Map.get returns for an absent key.
Undefined == [undefined |-> TRUE]

\* Faulty variant: the key stays in the map.
MapDeleteKeeps(m, k) == m

\* A function without the key k (Map.delete).
MapDelete(m, k) == [x \in DOMAIN m \ {k} |-> m[x]]

\* A function with k mapped to v (Map.set).
MapSet(m, k, v) == [x \in DOMAIN m \cup {k} |-> IF x = k THEN v ELSE m[x]]

EmptyMap == [x \in {} |-> Undefined]

\* Object.assign(target, source) on ActivateBinding: the fields the source
\* has overwrite the target's.
ObjectAssign(target, source) ==
    [spacebarFn |-> source.spacebarFn,
     enterFn    |-> IF source.enterFn # NoFn THEN source.enterFn
                    ELSE target.enterFn]

\* Faulty variant: the per-element map is read without its fn key.
GetElementBindingsAnyFn(B, element, fn) ==
    IF element \notin DOMAIN B THEN Undefined
    ELSE IF DOMAIN B[element] = {} THEN Undefined
    ELSE B[element][CHOOSE g \in DOMAIN B[element] : TRUE]

GetElementBindings(B, element, fn) ==
    IF element \notin DOMAIN B THEN Undefined
    ELSE IF fn \notin DOMAIN B[element] THEN Undefined
    ELSE B[element][fn]

GetElementHasBindings(B, element) == element \in DOMAIN B

RememberElementBindings(B, element, fn, bindings) ==
    LET elementB == IF element \in DOMAIN B THEN B[element]
                    ELSE MapSet(EmptyMap, fn, bindings)
        fnB      == IF fn \in DOMAIN elementB
                    THEN ObjectAssign(elementB[fn], bindings)
                    ELSE ObjectAssign([spacebarFn |-> NoFn, enterFn |-> NoFn],
                                      bindings)
    IN  MapSet(B, element, MapSet(elementB, fn, fnB))

\* Faulty variant: the records of every element are dropped.
ForgetEveryElement(B, element, fn) == EmptyMap

ForgetElementBindings(B, element, fn) ==
    IF element \notin DOMAIN B THEN B
    ELSE LET B1 == MapSet(B, element, MapDelete(B[element], fn))
         IN  MapDelete(B1, element)

(* ------------------------ per-element operations ---------------------- *)

\* A program state: the listener lists of every element, the registry and
\* the number of closures created so far.
AddEventListener(S, element, type, listener) ==
    CASE type = "click"   -> [S EXCEPT !.click[element] = @ \cup {listener}]
      [] type = "keyup"   -> [S EXCEPT !.keyup[element] = @ \cup {listener}]
      [] type = "keydown" -> [S EXCEPT !.keydown[element] = @ \cup {listener}]

\* Faulty variant: nothing is detached.
RemoveEventListenerKeeps(S, element, type, listener) == S

RemoveEventListener(S, element, type, listener) ==
    CASE type = "click"   -> [S EXCEPT !.click[element] = @ \ {listener}]
      [] type = "keyup"   -> [S EXCEPT !.keyup[element] = @ \ {listener}]
      [] type = "keydown" -> [S EXCEPT !.keydown[element] = @ \ {listener}]

\* Faulty variant: the Enter wrapper is attached to links too.
ActivateSingleEnterOnLinks(S, element, fn) ==
    IF ~IsHTMLElement(element) THEN S
    ELSE IF GetElementBindings(S.boundEvents, element, fn) # Undefined THEN S
    ELSE
      LET S1 == AddEventListener(S, element, "click", fn)
      IN  IF IsButton(element) THEN S1
          ELSE
            LET S2 == IF ~GetElementHasBindings(S1.boundEvents, element)
                      THEN AddEventListener(S1, element, "keydown",
                                            PreventSpacebarScroll)
                      ELSE S1
                spacebarFn == MakeSpacebarFn(fn, S2.made + 1)
                S3 == [AddEventListener(S2, element, "keyup", spacebarFn)
                         EXCEPT !.made = @ + 1]
                enterFn == MakeEnterFn(fn, S3.made + 1)
                S4 == [AddEventListener(S3, element, "keydown", enterFn)
                         EXCEPT !.made = @ + 1]
                bindings == [spacebarFn |-> spacebarFn, enterFn |-> enterFn]
            IN  [S4 EXCEPT !.boundEvents =
                    RememberElementBindings(@, element, fn, bindings)]

ActivateSingle(S, element, fn) ==
    IF ~IsHTMLElement(element) THEN S                      \* throws TypeError
    ELSE IF GetElementBindings(S.boundEvents, element, fn) # Undefined THEN S
    ELSE
      LET S1 == AddEventListener(S, element, "click", fn)
      IN  IF IsButton(element) THEN S1
          ELSE
            LET S2 == IF ~GetElementHasBindings(S1.boundEvents, element)
                      THEN AddEventListener(S1, element, "keydown",
                                            PreventSpacebarScroll)
                      ELSE S1
                spacebarFn == MakeSpacebarFn(fn, S2.made + 1)
                S3 == [AddEventListener(S2, element, "keyup", spacebarFn)
                         EXCEPT !.made = @ + 1]
                enterFn == MakeEnterFn(fn, S3.made + 1)
                S4 == IF ~IsAnchor(element)
                      THEN [AddEventListener(S3, element, "keydown", enterFn)
                              EXCEPT !.made = @ + 1]
                      ELSE S3
                bindings == [spacebarFn |-> spacebarFn,
                             enterFn    |-> IF ~IsAnchor(element) THEN enterFn
                                            ELSE NoFn]
            IN  [S4 EXCEPT !.boundEvents =
                    RememberElementBindings(@, element, fn, bindings)]

\* Faulty variant: no early return when no bindings are recorded for the pair.
DeactivateSingleNoEarlyReturn(S, element, fn) ==
    IF ~IsHTMLElement(element) THEN S
    ELSE
      LET S1 == RemoveEventListener(S, element, "click", fn)
          found == GetElementBindings(S1.boundEvents, element, fn)
          bindings == IF found = Undefined
                      THEN [spacebarFn |-> NoFn, enterFn |-> NoFn]
                      ELSE found
      IN  IF IsButton(element) THEN S1
          ELSE
            LET S2 == IF bindings.spacebarFn # NoFn
                      THEN RemoveEventListener(S1, element, "keyup",
                                               bindings.spacebarFn)
                      ELSE S1
                S3 == IF ~IsAnchor(element) /\ bindings.enterFn # NoFn
                      THEN RemoveEventListener(S2, element, "keydown",
                                               bindings.enterFn)
                      ELSE S2
                S4 == [S3 EXCEPT !.boundEvents =
                          ForgetElementBindings(@, element, fn)]
            IN  IF ~GetElementHasBindings(S4.boundEvents, element)
                THEN RemoveEventListener(S4, element, "keydown",
                                         PreventSpacebarScroll)
                ELSE S4

\* Faulty variant: the shared keydown listener is left on the element.
DeactivateSingleKeepsScroll(S, element, fn) ==
    IF ~IsHTMLElement(element) THEN S
    ELSE
      LET S1 == RemoveEventListener(S, element, "click", fn)
          bindings == GetElementBindings(S1.boundEvents, element, fn)
      IN  IF bindings = Undefined THEN S1
          ELSE IF IsButton(element) THEN S1
          ELSE
            LET S2 == IF bindings.spacebarFn # NoFn
                      THEN RemoveEventListener(S1, element, "keyup",
                                               bindings.spacebarFn)
                      ELSE S1
                S3 == IF ~IsAnchor(element) /\ bindings.enterFn # NoFn
                      THEN RemoveEventListener(S2, element, "keydown",
                                               bindings.enterFn)
                      ELSE S2
            IN  [S3 EXCEPT !.boundEvents =
                    ForgetElementBindings(@, element, fn)]

DeactivateSingle(S, element, fn) ==
    IF ~IsHTMLElement(element) THEN S                      \* throws TypeError
    ELSE
      LET S1 == RemoveEventListener(S, element, "click", fn)
          bindings == GetElementBindings(S1.boundEvents, element, fn)
      IN  IF bindings = Undefined THEN S1
          ELSE IF IsButton(element) THEN S1
          ELSE
            LET S2 == IF bindings.spacebarFn # NoFn
                      THEN RemoveEventListener(S1, element, "keyup",
                                               bindings.spacebarFn)
                      ELSE S1
                S3 == IF ~IsAnchor(element) /\ bindings.enterFn # NoFn
                      THEN RemoveEventListener(S2, element, "keydown",
                                               bindings.enterFn)
                      ELSE S2
                S4 == [S3 EXCEPT !.boundEvents =
                          ForgetElementBindings(@, element, fn)]
            IN  IF ~GetElementHasBindings(S4.boundEvents, element)
                THEN RemoveEventListener(S4, element, "keydown",
                                         PreventSpacebarScroll)
                ELSE S4

\* Faulty variant: the per-element operations accept any argument.
ThrowsNothing(element) == FALSE

\* Whether the per-element operation throws its TypeError.
ThrowsTypeError(element) == ~IsHTMLElement(element)

(* ------------------------------ dispatcher ---------------------------- *)

\* A target is what the caller passes as elements: a string, an HTMLElement
\* or a NodeList (a sequence of nodes).
StringTarget(s) == [form |-> "string", of |-> s]

ElementTarget(element) == [form |-> "element", of |-> element]

ListTarget(list) == [form |-> "list", of |-> list]

\* The strings passed as selectors: one that matches every element, one that
\* matches none, one that is no valid selector.
InvalidSelector == "a["

Selectors == {"*", ".none", InvalidSelector}

\* Whether document.querySelectorAll throws its SyntaxError.
QuerySelectorThrows(selector) == selector \notin {"*", ".none"}

\* The elements in document order.
DocumentOrder == <<"e1", "e2">>

\* The NodeList document.querySelectorAll returns for a valid selector.
QuerySelectorAll(selector) ==
    IF selector = "*" THEN SelectSeq(DocumentOrder, LAMBDA e : e \in Elements)
    ELSE <<>>

\* An error thrown to the caller: its class and the operation its message
\* names.
NoError == [name |-> "none", method |-> "-"]

\* Faulty variant: the message names activate whatever was attempted.
ErrorOfActivate(name, method) == [name |-> name, method |-> "activate"]

ErrorOf(name, method) == [name |-> name, method |-> method]

\* The outcome of a call: the state it leaves, the error it throws, and the
\* nodes the per-element operation was completed for, in call order.
Outcome(S, error, applied) == [S |-> S, error |-> error, applied |-> applied]

\* activator(element, fn) for the per-element operation named activator.
ApplySingle(R, element, fn, activator) ==
    IF ThrowsTypeError(element)
    THEN Outcome(R.S, ErrorOf("TypeError", activator), R.applied)
    ELSE Outcome(IF activator = "deactivate"
                 THEN DeactivateSingle(R.S, element, fn)
                 ELSE ActivateSingle(R.S, element, fn),
                 NoError, Append(R.applied, element))

\* Faulty variant: the iteration goes on after a member has thrown, and the
\* first error is thrown at the end.
RECURSIVE ForEachSkipsInvalid(_, _, _, _)
ForEachSkipsInvalid(R, list, fn, activator) ==
    IF list = <<>> THEN R
    ELSE LET R1 == ApplySingle([R EXCEPT !.error = NoError], Head(list), fn,
                               activator)
             R2 == IF R.error # NoError THEN [R1 EXCEPT !.error = R.error]
                   ELSE R1
         IN  ForEachSkipsInvalid(R2, Tail(list), fn, activator)

\* Faulty variant: the iteration stops after the first member.
ForEachFirstOnly(R, list, fn, activator) ==
    IF list = <<>> THEN R ELSE ApplySingle(R, Head(list), fn, activator)

\* elements.forEach((element) => activator(element, fn)): an exception
\* thrown by the callback ends the iteration.
RECURSIVE ForEach(_, _, _, _)
ForEach(R, list, fn, activator) ==
    IF list = <<>> \/ R.error # NoError THEN R
    ELSE ForEach(ApplySingle(R, Head(list), fn, activator), Tail(list), fn,
                 activator)

\* _activator(elements, fn, activator)
Activator(S, elements, fn, activator) ==
    IF elements.form = "string" /\ QuerySelectorThrows(elements.of)
    THEN Outcome(S, ErrorOf("DOMException", activator), <<>>)
    ELSE
      LET resolved == IF elements.form = "string"
                      THEN ListTarget(QuerySelectorAll(elements.of))
                      ELSE elements
          R0 == Outcome(S, NoError, <<>>)
      IN  IF resolved.form = "element"
          THEN ApplySingle(R0, resolved.of, fn, activator)
          ELSE ForEach(R0, resolved.of, fn, activator)

(* --------------------------- event dispatch --------------------------- *)

\* The callback a listener invokes when it receives an event with this key
\* ("-" when it invokes none).
Invokes(listener, type, key) ==
    CASE type = "click"          -> listener
      [] listener.kind = "space" -> IF IsSpacebar(key) THEN listener.fn ELSE "-"
      [] listener.kind = "enter" -> IF IsEnter(key) THEN listener.fn ELSE "-"
      [] OTHER                   -> "-"

ListenersOf(S, element, type) ==
    CASE type = "click"   -> S.click[element]
      [] type = "keyup"   -> S.keyup[element]
      [] type = "keydown" -> S.keydown[element]

\* How often one event of this type and key, dispatched to element, invokes fn.
Calls(S, element, type, key, fn) ==
    Cardinality({l \in ListenersOf(S, element, type) :
                    Invokes(l, type, key) = fn})

\* Whether _preventSpacebarScroll, run with element as receiver, calls
\* e.preventDefault().
PreventsDefault(element, key) ==
    ~IsButton(element) /\ ~IsInput(element) /\ IsSpacebar(key)

\* Whether one event dispatched to element has its default action prevented
\* by a listener of this module.
Prevented(S, element, type, key) ==
    /\ type = "keydown"
    /\ PreventSpacebarScroll \in S.keydown[element]
    /\ PreventsDefault(element, key)

(* ------------------------------- state -------------------------------- *)

VARIABLES
    click,        \* click[e]: the click listeners of e
    keyup,        \* keyup[e]: the keyup listeners of e
    keydown,      \* keydown[e]: the keydown listeners of e
    boundEvents,  \* the registry: element -> (fn -> ActivateBinding)
    made,         \* closures created so far
    bound,        \* history: the pairs <<e, fn>> bound and not unbound since
    everBound,    \* history: the pairs ever passed to activate
    everUnbound,  \* history: the pairs ever passed to deactivate
    last          \* the last call and what it did

vars == <<tagName, click, keyup, keydown, boundEvents, made, bound,
          everBound, everUnbound, last>>

\* The program state as one value.
Cur == [click |-> click, keyup |-> keyup, keydown |-> keydown,
        boundEvents |-> boundEvents, made |-> made]

NoCalls == [f \in Fns |-> 0]

\* No call yet.
NoTarget == [form |-> "none", of |-> "-"]

\* The element a call names as its target ("-" for a string or a list).
TargetElement(target) == IF target.form = "element" THEN target.of ELSE "-"

\* The pairs <<element, fn>> of the elements in a sequence.
PairsOf(applied, fn) == {<<applied[i], fn>> : i \in DOMAIN applied}

\* The closures one behaviour may create.
MadeLimit == IF Elements = Document THEN MaxMade ELSE MaxPairMade

Init ==
    /\ tagName \in [Document -> Tags]
    /\ click = [e \in Document |-> {}]
    /\ keyup = [e \in Document |-> {}]
    /\ keydown = [e \in Document |-> {}]
    /\ boundEvents = EmptyMap
    /\ made = 0
    /\ bound = {}
    /\ everBound = {}
    /\ everUnbound = {}
    /\ last = [op |-> "init", e |-> "-", f |-> "-", wasBound |-> FALSE,
               firstUnbind |-> FALSE, threw |-> FALSE, type |-> "-",
               key |-> "-", n |-> 0, calls |-> NoCalls, prevented |-> FALSE,
               target |-> NoTarget, error |-> NoError, applied |-> <<>>]

Install(S) ==
    /\ UNCHANGED tagName
    /\ click' = S.click
    /\ keyup' = S.keyup
    /\ keydown' = S.keydown
    /\ boundEvents' = S.boundEvents
    /\ made' = S.made

\* activate(elements, fn)
Activate(elements, fn) ==
    LET R == Activator(Cur, elements, fn, "activate")
        element == TargetElement(elements)
    IN  /\ R.S.made <= MadeLimit
        /\ Install(R.S)
        /\ bound' = bound \cup PairsOf(R.applied, fn)
        /\ everBound' = everBound \cup PairsOf(R.applied, fn)
        /\ UNCHANGED everUnbound
        /\ last' = [op |-> "activate", e |-> element, f |-> fn,
                    wasBound |-> <<element, fn>> \in bound,
                    firstUnbind |-> FALSE,
                    threw |-> R.error # NoError,
                    type |-> "-", key |-> "-", n |-> 0, calls |-> NoCalls,
                    prevented |-> FALSE,
                    target |-> elements, error |-> R.error,
                    applied |-> R.applied]

\* deactivate(elements, fn)
Deactivate(elements, fn) ==
    LET R == Activator(Cur, elements, fn, "deactivate")
        element == TargetElement(elements)
    IN  /\ Install(R.S)
        /\ bound' = bound \ PairsOf(R.applied, fn)
        /\ everUnbound' = everUnbound \cup PairsOf(R.applied, fn)
        /\ UNCHANGED everBound
        /\ last' = [op |-> "deactivate", e |-> element, f |-> fn,
                    wasBound |-> <<element, fn>> \in bound,
                    firstUnbind |->
                        \A g \in Fns : <<element, g>> \notin everUnbound,
                    threw |-> R.error # NoError,
                    type |-> "-", key |-> "-", n |-> 0, calls |-> NoCalls,
                    prevented |-> FALSE,
                    target |-> elements, error |-> R.error,
                    applied |-> R.applied]

\* The host dispatches n events of one type and key to element (n > 1: a
\* held key repeating); every listener of that type runs once per event.
Dispatch(element, type, key, n) ==
    /\ type = "click" => key = NoKey /\ n = 1
    /\ type = "keyup" => n = 1
    /\ UNCHANGED <<tagName, click, keyup, keydown, boundEvents, made, bound,
                   everBound, everUnbound>>
    /\ last' = [op |-> "dispatch", e |-> element, f |-> "-",
                wasBound |-> FALSE, firstUnbind |-> FALSE, threw |-> FALSE,
                type |-> type, key |-> key, n |-> n,
                calls |-> [f \in Fns |-> n * Calls(Cur, element, type, key, f)],
                prevented |-> Prevented(Cur, element, type, key),
                target |-> NoTarget, error |-> NoError, applied |-> <<>>]

Next ==
    \/ \E element \in Elements, fn \in Fns :
          Activate(ElementTarget(element), fn)
    \/ \E element \in Elements, fn \in Fns :
          Deactivate(ElementTarget(element), fn)
    \/ \E element \in Elements, type \in EventTypes, key \in Keys,
          n \in 1..MaxRepeat : Dispatch(element, type, key, n)

Spec == Init /\ [][Next]_vars

(* ------------------ the dispatcher over every target form ------------- *)

\* A node that is no HTMLElement (an SVG element), as a member of a NodeList.
ForeignNode == "svg"

Nodes == Elements \cup {ForeignNode}

\* The NodeLists passed as targets.
NodeLists == UNION {[1..n -> Nodes] : n \in 0..MaxList}

\* The targets passed to activate and deactivate.
Targets ==
    {ElementTarget(e) : e \in Elements}
        \cup {StringTarget(s) : s \in Selectors}
        \cup {ListTarget(l) : l \in NodeLists}

\* The element classes of the two-element document: one that gets no
\* keyboard listener and one that gets them all.
PairTags == {"button", "span"}

InitDispatcher ==
    /\ tagName \in [DocumentPair -> PairTags]
    /\ click = [e \in DocumentPair |-> {}]
    /\ keyup = [e \in DocumentPair |-> {}]
    /\ keydown = [e \in DocumentPair |-> {}]
    /\ boundEvents = EmptyMap
    /\ made = 0
    /\ bound = {}
    /\ everBound = {}
    /\ everUnbound = {}
    /\ last = [op |-> "init", e |-> "-", f |-> "-", wasBound |-> FALSE,
               firstUnbind |-> FALSE, threw |-> FALSE, type |-> "-",
               key |-> "-", n |-> 0, calls |-> NoCalls, prevented |-> FALSE,
               target |-> NoTarget, error |-> NoError, applied |-> <<>>]

\* The callback passed with these targets.
DispatcherFns == {"F1"}

NextDispatcher ==
    \/ \E elements \in Targets, fn \in DispatcherFns :
          Activate(elements, fn)
    \/ \E elements \in Targets, fn \in DispatcherFns :
          Deactivate(elements, fn)

SpecDispatcher == InitDispatcher /\ [][NextDispatcher]_vars

(* ------------------- the 1.0.0 implementation (JavaScript) ------------ *)

\* The element classes of the documents the 1.0.0 module is exercised on.
TagsJs == {"button", "a", "span", "form", "select"}

\* An element without a length property (nodes.length is undefined).
NoLength == -1

\* The most controls of a form, or options of a select, at a call.
MaxLength == 2

\* What element.length can evaluate to at the time of a call: the number of
\* controls of a form, of options of a select, undefined otherwise.
LengthsOf(element) ==
    IF tagName[element] \in {"form", "select"} THEN 0..MaxLength
    ELSE {NoLength}

\* A single node passed as nodes, with the length it has at the call.
NodeTarget(node, length) ==
    [form |-> "element", of |-> node, length |-> length]

\* A value that is no Node, as a member of an array-like target.
NotANode == "null"

IsNode(x) == x \in Elements

\* _isNodeType(node, ...nodeTypes)
IsNodeType(node, nodeTypes) == tagName[node] \in nodeTypes

\* _getNodeBindings(node, fn)
GetNodeBindings(B, node, fn) ==
    IF node \notin DOMAIN B THEN Undefined
    ELSE IF fn \notin DOMAIN B[node] THEN Undefined
    ELSE B[node][fn]

\* _getNodeHasBindings(node)
GetNodeHasBindings(B, node) == node \in DOMAIN B

\* _rememberNodeBindings(node, fn, bindings)
RememberNodeBindings(B, node, fn, bindings) ==
    LET nodeB == IF node \in DOMAIN B THEN B[node] ELSE EmptyMap
    IN  MapSet(B, node, MapSet(nodeB, fn, bindings))

\* _forgetNodeBindings(node, fn): the entry of fn is spliced out of the
\* node's bindings, the node's record stays.
ForgetNodeBindings(B, node, fn) ==
    IF node \notin DOMAIN B THEN B
    ELSE IF fn \notin DOMAIN B[node] THEN B
    ELSE MapSet(B, node, MapDelete(B[node], fn))

\* _activateSingle(node, fn) of 1.0.0
ActivateSingleJs(S, node, fn) ==
    IF ~IsNode(node) THEN S                                \* throws TypeError
    ELSE IF GetNodeBindings(S.boundEvents, node, fn) # Undefined THEN S
    ELSE
      LET S1 == AddEventListener(S, node, "click", fn)
      IN  IF IsNodeType(node, {"button"}) THEN S1
          ELSE
            LET S2 == IF ~GetNodeHasBindings(S1.boundEvents, node)
                      THEN AddEventListener(S1, node, "keydown",
                                            PreventSpacebarScroll)
                      ELSE S1
                spacebarFn == MakeSpacebarFn(fn, S2.made + 1)
                S3 == [AddEventListener(S2, node, "keyup", spacebarFn)
                         EXCEPT !.made = @ + 1]
                enterFn == MakeEnterFn(fn, S3.made + 1)
                isLink == IsNodeType(node, {"a"})
                S4 == IF ~isLink
                      THEN [AddEventListener(S3, node, "keydown", enterFn)
                              EXCEPT !.made = @ + 1]
                      ELSE S3
                bindings == [spacebarFn |-> spacebarFn,
                             enterFn    |-> IF ~isLink THEN enterFn ELSE NoFn]
            IN  [S4 EXCEPT !.boundEvents =
                    RememberNodeBindings(@, node, fn, bindings)]

\* _deactivateSingle(node, fn) of 1.0.0
DeactivateSingleJs(S, node, fn) ==
    IF ~IsNode(node) THEN S                                \* throws TypeError
    ELSE
      LET bindings == GetNodeBindings(S.boundEvents, node, fn)
          S1 == RemoveEventListener(S, node, "click", fn)
      IN  IF bindings = Undefined THEN S1
          ELSE IF IsNodeType(node, {"button"}) THEN S1
          ELSE
            LET S2 == RemoveEventListener(S1, node, "keyup",
                                          bindings.spacebarFn)
                S3 == IF ~IsNodeType(node, {"a"})
                      THEN RemoveEventListener(S2, node, "keydown",
                                               bindings.enterFn)
                      ELSE S2
                S4 == [S3 EXCEPT !.boundEvents =
                          ForgetNodeBindings(@, node, fn)]
            IN  IF ~GetNodeHasBindings(S4.boundEvents, node)
                THEN RemoveEventListener(S4, node, "keydown",
                                         PreventSpacebarScroll)
                ELSE S4

\* The TypeError of calling nodes.forEach on a value that has no forEach.
NotAFunction == [name |-> "TypeError", method |-> "forEach"]

\* activator(node, fn) for the 1.0.0 per-node operation named activator.
ApplySingleJs(R, node, fn, activator) ==
    IF ~IsNode(node)
    THEN Outcome(R.S, ErrorOf("TypeError", activator), R.applied)
    ELSE Outcome(IF activator = "deactivate"
                 THEN DeactivateSingleJs(R.S, node, fn)
                 ELSE ActivateSingleJs(R.S, node, fn),
                 NoError, Append(R.applied, node))

\* nodes.forEach((node) => activator(node, fn)) on a NodeList or an array
RECURSIVE ForEachJs(_, _, _, _)
ForEachJs(R, list, fn, activator) ==
    IF list = <<>> \/ R.error # NoError THEN R
    ELSE ForEachJs(ApplySingleJs(R, Head(list), fn, activator), Tail(list),
                   fn, activator)

\* _activator(nodes, fn, activator) of 1.0.0: nodes.length is tested before
\* nodes instanceof Node.
ActivatorJs(S, nodes, fn, activator) ==
    IF nodes.form = "string" /\ QuerySelectorThrows(nodes.of)
    THEN Outcome(S, ErrorOf("DOMException", activator), <<>>)
    ELSE
      LET resolved == IF nodes.form = "string"
                      THEN ListTarget(QuerySelectorAll(nodes.of))
                      ELSE nodes
          length == IF resolved.form = "list" THEN Len(resolved.of)
                    ELSE resolved.length
          R0 == Outcome(S, NoError, <<>>)
      IN  IF length # NoLength /\ length # 0
          THEN IF resolved.form = "list"
               THEN ForEachJs(R0, resolved.of, fn, activator)
               ELSE Outcome(S, NotAFunction, <<>>)
          ELSE IF resolved.form = "element"
               THEN ApplySingleJs(R0, resolved.of, fn, activator)
               ELSE R0

\* The array-likes passed as nodes.
NodeListsJs == UNION {[1..n -> Elements \cup {NotANode}] : n \in 0..MaxList}

\* The values passed as nodes to the 1.0.0 module.
TargetsJs ==
    {NodeTarget(e, n) : e \in Elements, n \in 0..MaxLength \cup {NoLength}}
        \cup {StringTarget(s) : s \in Selectors}
        \cup {ListTarget(l) : l \in NodeListsJs}

InitJs ==
    /\ tagName \in [Document -> TagsJs]
    /\ click = [e \in Document |-> {}]
    /\ keyup = [e \in Document |-> {}]
    /\ keydown = [e \in Document |-> {}]
    /\ boundEvents = EmptyMap
    /\ made = 0
    /\ bound = {}
    /\ everBound = {}
    /\ everUnbound = {}
    /\ last = [op |-> "init", e |-> "-", f |-> "-", wasBound |-> FALSE,
               firstUnbind |-> FALSE, threw |-> FALSE, type |-> "-",
               key |-> "-", n |-> 0, calls |-> NoCalls, prevented |-> FALSE,
               target |-> NoTarget, error |-> NoError, applied |-> <<>>]

\* activate(nodes, fn) of 1.0.0
ActivateJs(nodes, fn) ==
    LET R == ActivatorJs(Cur, nodes, fn, "activate")
        node == TargetElement(nodes)
    IN  /\ nodes.form = "element" => nodes.length \in LengthsOf(nodes.of)
        /\ R.S.made <= MadeLimit
        /\ Install(R.S)
        /\ bound' = bound \cup PairsOf(R.applied, fn)
        /\ everBound' = everBound \cup PairsOf(R.applied, fn)
        /\ UNCHANGED everUnbound
        /\ last' = [op |-> "activate", e |-> node, f |-> fn,
                    wasBound |-> <<node, fn>> \in bound,
                    firstUnbind |-> FALSE,
                    threw |-> R.error # NoError,
                    type |-> "-", key |-> "-", n |-> 0, calls |-> NoCalls,
                    prevented |-> FALSE,
                    target |-> nodes, error |-> R.error,
                    applied |-> R.applied]

\* deactivate(nodes, fn) of 1.0.0
DeactivateJs(nodes, fn) ==
    LET R == ActivatorJs(Cur, nodes, fn, "deactivate")
        node == TargetElement(nodes)
    IN  /\ nodes.form = "element" => nodes.length \in LengthsOf(nodes.of)
        /\ Install(R.S)
        /\ bound' = bound \ PairsOf(R.applied, fn)
        /\ everUnbound' = everUnbound \cup PairsOf(R.applied, fn)
        /\ UNCHANGED everBound
        /\ last' = [op |-> "deactivate", e |-> node, f |-> fn,
                    wasBound |-> <<node, fn>> \in bound,
                    firstUnbind |->
                        \A g \in Fns : <<node, g>> \notin everUnbound,
                    threw |-> R.error # NoError,
                    type |-> "-", key |-> "-", n |-> 0, calls |-> NoCalls,
                    prevented |-> FALSE,
                    target |-> nodes, error |-> R.error,
                    applied |-> R.applied]

NextJs ==
    \/ \E nodes \in TargetsJs, fn \in Fns : ActivateJs(nodes, fn)
    \/ \E nodes \in TargetsJs, fn \in Fns : DeactivateJs(nodes, fn)

SpecJs == InitJs /\ [][NextJs]_vars

(* ----------------------- what a wrapper passes on --------------------- *)

\* A KeyboardEvent object: its type, its key and its identity.
KeyboardEvent(type, key, id) == [type |-> type, key |-> key, id |-> id]

\* Faulty variant: fn(e), the callback is called without a receiver.
FnCallNoReceiver(fn, this, e) == <<[fn |-> fn, this |-> "undefined", e |-> e]>>

\* fn.call(this, e): one invocation of fn with receiver this and argument e.
FnCall(fn, this, e) == <<[fn |-> fn, this |-> this, e |-> e]>>

\* The invocations made by the closure _makeSpacebarFn(fn) returned, run
\* with receiver this for event e.
SpacebarFnCalls(listener, this, e) ==
    IF IsSpacebar(e.key) THEN FnCall(listener.fn, this, e) ELSE <<>>

\* The invocations made by the closure _makeEnterFn(fn) returned, run with
\* receiver this for event e.
EnterFnCalls(listener, this, e) ==
    IF IsEnter(e.key) THEN FnCall(listener.fn, this, e) ELSE <<>>

(* ------------------------- notions of the claims ---------------------- *)

\* The listeners attached to element in state S, by event type.
ListenerSet(S, element) ==
    <<S.click[element], S.keyup[element], S.keydown[element]>>

\* The generated wrappers of one kind, made for fn, attached to element.
WrappersOf(S, element, kind, fn) ==
    {w \in S.keyup[element] \cup S.keydown[element] :
        w.kind = kind /\ w.fn = fn}

\* No listener attached to element invokes fn.
NoListenerOf(S, element, fn) ==
    /\ fn \notin S.click[element]
    /\ WrappersOf(S, element, "space", fn) = {}
    /\ WrappersOf(S, element, "enter", fn) = {}

\* The callbacks bound to element and not unbound since.
BoundTo(element) == {f \in Fns : <<element, f>> \in bound}

\* The callbacks ever passed to activate with element.
EverBoundTo(element) == {f \in Fns : <<element, f>> \in everBound}

IsGeneric(element) == ~IsButton(element) /\ ~IsAnchor(element)

(* -------------------------------- C1 ---------------------------------- *)

\* C1: once deactivate(E, F) has returned for a non-button E and F has not
\* been bound to E again, no listener of E invokes F: F is no click
\* listener of E and no Space or Enter wrapper of F is attached to E,
\* whatever was bound to or unbound from E in between.
C1_NoListenerAfterUnbind ==
    \A e \in Elements, f \in Fns :
        (/\ ~IsButton(e)
         /\ <<e, f>> \in everUnbound
         /\ <<e, f>> \notin bound) => NoListenerOf(Cur, e, f)

(* -------------------------------- C2 ---------------------------------- *)

\* C2: in every reachable state, for every pair (E, F) that is not bound,
\* activate(E, F) followed by deactivate(E, F) leaves the listeners of E
\* (click, keyup, keydown, the shared scroll listener among them) as they
\* were.
C2_BindUnbindRoundTrip ==
    \A e \in Elements, f \in Fns :
        <<e, f>> \notin bound =>
            ListenerSet(DeactivateSingle(ActivateSingle(Cur, e, f), e, f), e)
                = ListenerSet(Cur, e)

(* -------------------------------- C3 ---------------------------------- *)

\* C3: in every reachable state, at most one Space wrapper and at most one
\* Enter wrapper made for F is attached to E, so one Space keyup and one
\* Enter keydown invoke F at most once.
C3_AtMostOneWrapper ==
    \A e \in Elements, f \in Fns :
        /\ Cardinality(WrappersOf(Cur, e, "space", f)) <= 1
        /\ Cardinality(WrappersOf(Cur, e, "enter", f)) <= 1
        /\ Calls(Cur, e, "keyup", " ", f) <= 1
        /\ Calls(Cur, e, "keydown", "Enter", f) <= 1

(* -------------------------------- C4 ---------------------------------- *)

\* fn is fully functional on element: a click invokes it and, where the
\* code binds keys, a Space keyup and an Enter keydown invoke it.
FullyFunctional(S, element, fn) ==
    /\ fn \in S.click[element]
    /\ Calls(S, element, "click", NoKey, fn) >= 1
    /\ ~IsButton(element) =>
          /\ WrappersOf(S, element, "space", fn) # {}
          /\ Calls(S, element, "keyup", " ", fn) >= 1
    /\ IsGeneric(element) =>
          /\ WrappersOf(S, element, "enter", fn) # {}
          /\ Calls(S, element, "keydown", "Enter", fn) >= 1

\* No event dispatched to element invokes fn.
NeverInvoked(S, element, fn) ==
    \A type \in EventTypes, key \in Keys :
        Calls(S, element, type, key, fn) = 0

\* C4: after deactivate(E, F1) of a bound F1, every other callback F2 still
\* bound to E stays fully functional (click listener, Space wrapper, and
\* Enter wrapper on a generic element, all attached and invoking F2); and
\* when that deactivate is the first one E sees (F1 and F2 were bound, then
\* only F1 was unbound), no click, Space keyup or Enter keydown invokes F1.
C4_OtherCallbackStaysFunctional ==
    (last.op = "deactivate" /\ last.wasBound) =>
        /\ \A f2 \in BoundTo(last.e) : FullyFunctional(Cur, last.e, f2)
        /\ last.firstUnbind => NeverInvoked(Cur, last.e, last.f)

\* Witness of C4: on a generic element F1 and F2 were bound and only F1 was
\* unbound; F2 is still bound.
C4_Witness ==
    /\ last.op = "deactivate" /\ last.wasBound /\ last.firstUnbind
    /\ IsGeneric(last.e) /\ ~IsInput(last.e)
    /\ BoundTo(last.e) = Fns \ {last.f}
    /\ EverBoundTo(last.e) = Fns

(* -------------------------------- C5 ---------------------------------- *)

\* C5: the shared Space-scroll-prevention keydown listener of E is removed
\* only by the deactivate call that leaves E with no bound callback.
C5_ScrollRemovedOnlyWithLastBinding ==
    [][\A e \in Elements :
          (/\ PreventSpacebarScroll \in keydown[e]
           /\ PreventSpacebarScroll \notin keydown'[e])
          => \A f \in Fns : <<e, f>> \notin bound']_vars

(* -------------------------------- C6 ---------------------------------- *)

\* C6: activate(E, F) of a pair that is already bound is a no-op: the
\* listeners of E and the registry are unchanged, each wrapper kind is
\* attached at most once per callback, and one deactivate(E, F) after it
\* leaves neither F as click listener nor a wrapper of F on E.
C6_RebindIsNoOp ==
    [][(last'.op = "activate" /\ <<last'.e, last'.f>> \in bound)
          => /\ click' = click
             /\ keyup' = keyup
             /\ keydown' = keydown
             /\ boundEvents' = boundEvents
             /\ \A g \in Fns :
                   /\ Cardinality(WrappersOf(Cur', last'.e, "space", g)) <= 1
                   /\ Cardinality(WrappersOf(Cur', last'.e, "enter", g)) <= 1
             /\ NoListenerOf(DeactivateSingle(Cur', last'.e, last'.f),
                             last'.e, last'.f)]_vars

(* -------------------------------- C7 ---------------------------------- *)

\* C7: deactivate(E, F) of a pair that is not bound (never bound, or unbound
\* before) does not throw and does nothing but remove F as click listener
\* of E: keyup and keydown listeners (wrappers, shared scroll listener) and
\* the registry are unchanged.
C7_UnbindOfUnboundPair ==
    [][(last'.op = "deactivate" /\ <<last'.e, last'.f>> \notin bound)
          => /\ ~last'.threw
             /\ click' = [click EXCEPT ![last'.e] = @ \ {last'.f}]
             /\ keyup' = keyup
             /\ keydown' = keydown
             /\ boundEvents' = boundEvents]_vars

\* Witness of C7: a second deactivate of a pair, on a non-button element to
\* which another callback is bound and recorded with its wrappers.
C7_Witness ==
    /\ last.op = "deactivate" /\ ~last.wasBound
    /\ <<last.e, last.f>> \in everBound
    /\ ~IsButton(last.e)
    /\ \E f2 \in BoundTo(last.e) :
          /\ GetElementBindings(boundEvents, last.e, f2) # Undefined
          /\ WrappersOf(Cur, last.e, "space", f2) # {}
    /\ PreventSpacebarScroll \in keydown[last.e]

(* -------------------------------- C8 ---------------------------------- *)

\* C8: activate(E, F) of a pair that is not bound attaches by element
\* class: a button gets F as click listener and no keyup or keydown
\* listener; a link gets F as click listener and exactly one new Space
\* wrapper of F on keyup, and no Enter wrapper; any other element gets F as
\* click listener, exactly one new Space wrapper of F on keyup and exactly
\* one new Enter wrapper of F on keydown.
C8_AttachByElementClass ==
    [][(last'.op = "activate" /\ <<last'.e, last'.f>> \notin bound) =>
          LET e == last'.e
              f == last'.f
              newUp == keyup'[e] \ keyup[e]
              newDown == (keydown'[e] \ keydown[e]) \ {PreventSpacebarScroll}
          IN  /\ f \in click'[e]
              /\ click'[e] \ click[e] \subseteq {f}
              /\ IsButton(e) => keyup'[e] = {} /\ keydown'[e] = {}
              /\ ~IsButton(e) =>
                    /\ Cardinality(newUp) = 1
                    /\ \A w \in newUp : w.kind = "space" /\ w.fn = f
                    /\ keyup[e] \subseteq keyup'[e]
                    /\ keydown[e] \subseteq keydown'[e]
              /\ IsAnchor(e) =>
                    /\ newDown = {}
                    /\ \A w \in keydown'[e] : w.kind # "enter"
              /\ IsGeneric(e) =>
                    /\ Cardinality(newDown) = 1
                    /\ \A w \in newDown : w.kind = "enter" /\ w.fn = f]_vars

\* Witness of C8: a second callback was just bound to a link.
C8_Witness ==
    /\ last.op = "activate" /\ ~last.wasBound
    /\ IsAnchor(last.e)
    /\ BoundTo(last.e) = Fns
    /\ Cardinality(keyup[last.e]) = 2

(* -------------------------------- C9 ---------------------------------- *)

\* C9: on a generic element E (no button, no link) to which no callback
\* other than F was ever bound, while F is bound every dispatched click,
\* every dispatched Space keyup and every dispatched Enter keydown invokes
\* F exactly once per event: n Enter keydown events of a held key invoke F
\* n times.
C9_OncePerEvent ==
    \A f \in Fns :
        (/\ last.op = "dispatch"
         /\ IsGeneric(last.e)
         /\ <<last.e, f>> \in bound
         /\ EverBoundTo(last.e) = {f}) =>
            /\ last.type = "click" => last.calls[f] = 1
            /\ (last.type = "keyup" /\ last.key = " ") => last.calls[f] = 1
            /\ (last.type = "keydown" /\ last.key = "Enter")
                  => last.calls[f] = last.n
            /\ Calls(Cur, last.e, "click", NoKey, f) = 1
            /\ Calls(Cur, last.e, "keyup", " ", f) = 1
            /\ Calls(Cur, last.e, "keydown", "Enter", f) = 1

\* Witness of C9: a held Enter key produced two keydown events on a span
\* with one callback bound, and the callback was invoked twice.
C9_Witness ==
    /\ last.op = "dispatch" /\ last.type = "keydown" /\ last.key = "Enter"
    /\ last.n = 2
    /\ tagName[last.e] = "span"
    /\ \E f \in Fns : /\ BoundTo(last.e) = {f}
                      /\ EverBoundTo(last.e) = {f}
                      /\ last.calls[f] = 2

(* -------------------------------- C10 --------------------------------- *)

\* C10: on a link E to which no callback other than F was ever bound, while
\* F is bound a dispatched Space keyup invokes F exactly once, through the
\* one Space wrapper attached, and a dispatched Enter keydown invokes no
\* callback through a generated wrapper: E carries no Enter wrapper.
C10_LinkSpaceOnlyWrapper ==
    \A e \in Elements, f \in Fns :
        (/\ IsAnchor(e)
         /\ <<e, f>> \in bound
         /\ EverBoundTo(e) = {f}) =>
            /\ Cardinality(WrappersOf(Cur, e, "space", f)) = 1
            /\ Calls(Cur, e, "keyup", " ", f) = 1
            /\ \A g \in Fns : /\ WrappersOf(Cur, e, "enter", g) = {}
                              /\ Calls(Cur, e, "keydown", "Enter", g) = 0
            /\ (last.op = "dispatch" /\ last.e = e) =>
                  /\ (last.type = "keyup" /\ last.key = " ")
                        => last.calls[f] = 1
                  /\ last.type = "keydown" => last.calls = NoCalls

\* Witness of C10: an Enter keydown was dispatched to a link with one
\* callback bound.
C10_Witness ==
    /\ last.op = "dispatch" /\ last.type = "keydown" /\ last.key = "Enter"
    /\ IsAnchor(last.e)
    /\ \E f \in Fns : BoundTo(last.e) = {f} /\ EverBoundTo(last.e) = {f}
    /\ last.calls = NoCalls

(* ------------------------- dispatcher claims -------------------------- *)

\* The listeners and the registry are what they were before the step.
NothingChanged == UNCHANGED <<click, keyup, keydown, boundEvents>>

\* C11: a call of bind or unbind with a string that is no valid selector
\* throws a DOMException whose message names the operation attempted
\* (activate for bind, deactivate for unbind), and leaves every listener and
\* the registry as they were.
C11_InvalidSelectorFailsFirst ==
    [][last'.target = StringTarget(InvalidSelector)
         => /\ last'.error = [name |-> "DOMException", method |-> last'.op]
            /\ last'.applied = <<>>
            /\ NothingChanged]_vars

\* An unbind with the invalid selector, while an element has bindings that
\* an unbind could have removed.
C11_Witness ==
    /\ last.op = "deactivate"
    /\ last.target = StringTarget(InvalidSelector)
    /\ last.error.name = "DOMException"
    /\ \E e \in Elements : GetElementHasBindings(boundEvents, e)

\* The members of list before its first member that is no HTMLElement.
RECURSIVE ValidPrefix(_)
ValidPrefix(list) ==
    IF list = <<>> \/ ~IsHTMLElement(Head(list)) THEN <<>>
    ELSE <<Head(list)>> \o ValidPrefix(Tail(list))

\* The per-element operations applied to the members of list, one after the
\* other in the order of the list.
RECURSIVE ApplyInOrder(_, _, _, _)
ApplyInOrder(S, list, fn, activator) ==
    IF list = <<>> THEN S
    ELSE ApplyInOrder(IF activator = "deactivate"
                      THEN DeactivateSingle(S, Head(list), fn)
                      ELSE ActivateSingle(S, Head(list), fn),
                      Tail(list), fn, activator)

HasForeignMember(list) == \E i \in DOMAIN list : ~IsHTMLElement(list[i])

\* C12: a per-element bind or unbind of something that is no HTMLElement
\* throws a TypeError naming the operation, and the check comes first: the
\* call leaves every listener and the registry as the members before it left
\* them (unchanged when it is the first member).
C12_TypeErrorComesFirst ==
    [][(last'.target.form = "list" /\ HasForeignMember(last'.target.of))
         => LET prefix == ValidPrefix(last'.target.of)
            IN  /\ last'.error = [name |-> "TypeError", method |-> last'.op]
                /\ last'.applied = prefix
                /\ Cur' = ApplyInOrder(Cur, prefix, last'.f, last'.op)
                /\ (prefix = <<>> => NothingChanged)]_vars

\* An unbind of a list whose only member is no HTMLElement, while an
\* element has bindings.
C12_Witness ==
    /\ last.op = "deactivate"
    /\ last.target = ListTarget(<<ForeignNode>>)
    /\ last.error.name = "TypeError"
    /\ \E e \in Elements : GetElementHasBindings(boundEvents, e)

\* The collection a target stands for: the list itself, or the elements a
\* valid selector matches, in document order.
CollectionOf(target) ==
    IF target.form = "list" THEN target.of
    ELSE IF target = StringTarget("*") THEN
           IF "e1" \in Elements /\ "e2" \in Elements THEN <<"e1", "e2">>
           ELSE IF "e1" \in Elements THEN <<"e1">>
           ELSE IF "e2" \in Elements THEN <<"e2">> ELSE <<>>
    ELSE <<>>

IsCollection(target) ==
    \/ target.form = "list" /\ ~HasForeignMember(target.of)
    \/ target.form = "string" /\ target.of # InvalidSelector

\* C13: for a collection target (a list of elements, or the matches of a
\* valid selector) the per-element operation is applied to every member
\* once, in the order of the collection, and nothing is thrown; for an empty
\* collection every listener and the registry stay as they were.
C13_EachMemberOnceInOrder ==
    [][IsCollection(last'.target)
         => LET list == CollectionOf(last'.target)
            IN  /\ last'.error = NoError
                /\ last'.applied = list
                /\ Cur' = ApplyInOrder(Cur, list, last'.f, last'.op)
                /\ (list = <<>> => NothingChanged /\ made' = made)]_vars

\* A bind of a list of two different elements that get keyboard wrappers,
\* so that the order of the two calls shows in the wrappers made.
C13_Witness ==
    /\ last.op = "activate"
    /\ last.target = ListTarget(<<"e2", "e1">>)
    /\ last.applied = <<"e2", "e1">>
    /\ ~IsButton("e1") /\ ~IsButton("e2")
    /\ \E w \in keyup["e2"] : \E v \in keyup["e1"] : w.id < v.id

(* ------------------------- key classification ------------------------- *)

\* The key values that are ' ' or 'spacebar' in any mix of cases.
SpaceSpellings == {" ", "spacebar", "Spacebar", "SPACEBAR", "SpaceBar"}

\* The key values that are 'enter' in any mix of cases.
EnterSpellings == {"enter", "Enter", "ENTER", "eNTER"}

\* The callbacks a keyboard event with this key invokes through listener.
WrapperInvokes(listener, key) ==
    IF listener.kind = "space" THEN Invokes(listener, "keyup", key)
    ELSE Invokes(listener, "keydown", key)

\* C15: a key event is classified as Space exactly when its key is ' ' or
\* 'spacebar' in any case, as Enter exactly when its key is 'enter' in any
\* case, and as neither when it has no key value; a Space wrapper invokes
\* its callback only for events classified as Space, an Enter wrapper only
\* for events classified as Enter, and so does every dispatched key event.
C15_KeyClassification ==
    /\ \A key \in KeyValues :
          /\ IsSpacebar(key) <=> key \in SpaceSpellings
          /\ IsEnter(key) <=> key \in EnterSpellings
    /\ ~IsSpacebar(NoKey) /\ ~IsEnter(NoKey)
    /\ \A e \in Elements : \A l \in keyup[e] \cup keydown[e] :
       \A key \in KeyValues :
          /\ l.kind = "space" =>
                (WrapperInvokes(l, key) = l.fn <=> key \in SpaceSpellings)
          /\ l.kind = "enter" =>
                (WrapperInvokes(l, key) = l.fn <=> key \in EnterSpellings)
          /\ l.kind \in {"space", "enter"} =>
                WrapperInvokes(l, key) \in {l.fn, "-"}
    /\ (last.op = "dispatch" /\ \E f \in Fns : last.calls[f] > 0) =>
          /\ last.type = "keyup" => last.key \in SpaceSpellings
          /\ last.type = "keydown" => last.key \in EnterSpellings

\* A keyup with the legacy key name reaches the callback through its Space
\* wrapper on an element that also carries an Enter wrapper.
C15_Witness ==
    /\ last.op = "dispatch" /\ last.type = "keyup" /\ last.key = "Spacebar"
    /\ last.calls["F1"] = 1
    /\ \E l \in keydown[last.e] : l.kind = "enter" /\ l.fn = "F1"

(* -------------------------------- C16 --------------------------------- *)

\* C16: a keydown dispatched to an element that has a callback bound has
\* its default action prevented exactly when its key is a Space key and the
\* element is no button, input or textarea.
C16_SpaceScrollSuppressed ==
    (last.op = "dispatch" /\ last.type = "keydown" /\ BoundTo(last.e) # {})
        => (last.prevented <=>
               /\ last.key \in SpaceSpellings
               /\ tagName[last.e] \notin {"button", "input", "textarea"})

(* --------------------------- registry claims -------------------------- *)

\* The registry holds a Binding for the pair.
HasBinding(B, element, fn) == GetElementBindings(B, element, fn) # Undefined

\* C17: for every element that is no button and every callback, the registry
\* holds a Binding for the pair exactly when the callback was attached as
\* click listener by a bind of the pair and not removed since by an unbind
\* of the pair.
C17_BindingIffBound ==
    \A e \in Elements : \A f \in Fns :
        tagName[e] # "button" =>
            (HasBinding(boundEvents, e, f) <=> <<e, f>> \in bound)

C19_ScrollIffRecorded ==
    \A e \in Elements :
        PreventSpacebarScroll \in keydown[e]
            <=> \E f \in Fns : HasBinding(boundEvents, e, f)

\* A second unbind, on an element both callbacks were bound to, has removed
\* the record of the element and the shared listener with it.
C19_Witness ==
    /\ last.op = "deactivate" /\ last.wasBound /\ ~last.firstUnbind
    /\ tagName[last.e] # "button"
    /\ PreventSpacebarScroll \notin keydown[last.e]
    /\ \A f \in Fns : ~HasBinding(boundEvents, last.e, f)
    /\ EverBoundTo(last.e) = Fns

\* C20: an unbind of (E, F1) on an element that is no button leaves the
\* Binding of every other callback as it was, so that an unbind of a
\* callback that is still bound afterwards finds its Binding and removes
\* its Space and Enter wrappers.
C20_ForgetOnlyOneCallback ==
    [][(last'.op = "deactivate" /\ tagName[last'.e] # "button")
         => \A g \in Fns \ {last'.f} :
               /\ GetElementBindings(boundEvents', last'.e, g)
                     = GetElementBindings(boundEvents, last'.e, g)
               /\ <<last'.e, g>> \in bound' =>
                     NoListenerOf(DeactivateSingle(Cur', last'.e, g),
                                  last'.e, g)]_vars

(* -------------------------------- C14 --------------------------------- *)

\* C14: when the target is a single element, the per-element operation is
\* applied to that element, once, and nothing is thrown, whatever length the
\* element has (here for the 1.0.0 dispatcher).
C14_SingleElementAppliedOnce ==
    [][last'.target.form = "element"
         => /\ last'.error = NoError
            /\ last'.applied = <<last'.e>>
            /\ Cur' = IF last'.op = "deactivate"
                      THEN DeactivateSingleJs(Cur, last'.e, last'.f)
                      ELSE ActivateSingleJs(Cur, last'.e, last'.f)]_vars

(* -------------------------------- C21 --------------------------------- *)

\* C21: in the 1.0.0 implementation, once the last callback bound to an
\* element that is no button has been unbound, the registry does not report
\* the element as having bindings and the shared keydown listener is removed
\* from it, so that no listener at all is left attached.
C21_LastUnbindClearsElement ==
    (/\ last.op = "deactivate" /\ last.target.form = "element"
     /\ last.error = NoError /\ last.wasBound
     /\ tagName[last.e] # "button"
     /\ BoundTo(last.e) = {})
        => /\ ~GetNodeHasBindings(boundEvents, last.e)
           /\ PreventSpacebarScroll \notin keydown[last.e]
           /\ (EverBoundTo(last.e) = {last.f} =>
                  ListenerSet(Cur, last.e) = <<{}, {}, {}>>)

(* -------------------------------- C22 --------------------------------- *)

\* The identities of the event objects examined.
EventIds == {1, 2}

\* C22: every generated wrapper attached to an element, run for an event of
\* its key, invokes the callback it was generated for exactly once, with the
\* event object it received and the element as receiver; for any other key
\* it invokes nothing; and it invokes a callback exactly when the dispatch
\* of that event through it does.
C22_WrapperPassesEventAndReceiver ==
    \A el \in Elements : \A l \in keyup[el] \cup keydown[el] :
    \A key \in KeyValues : \A id \in EventIds :
        /\ l.kind = "space" =>
              LET e == KeyboardEvent("keyup", key, id)
                  calls == SpacebarFnCalls(l, el, e)
              IN  /\ calls = IF key \in SpaceSpellings
                             THEN <<[fn |-> l.fn, this |-> el, e |-> e]>>
                             ELSE <<>>
                  /\ calls # <<>> <=> Invokes(l, "keyup", key) = l.fn
        /\ l.kind = "enter" =>
              LET e == KeyboardEvent("keydown", key, id)
                  calls == EnterFnCalls(l, el, e)
              IN  /\ calls = IF key \in EnterSpellings
                             THEN <<[fn |-> l.fn, this |-> el, e |-> e]>>
                             ELSE <<>>
                  /\ calls # <<>> <=> Invokes(l, "keydown", key) = l.fn

\* An Enter keydown on an element that carries the Enter wrappers of two
\* callbacks: each wrapper has invoked its own callback, once.
C22_Witness ==
    /\ last.op = "dispatch" /\ last.type = "keydown" /\ last.key = "ENTER"
    /\ last.n = 1
    /\ last.calls = [f \in Fns |-> 1]
    /\ \A f \in Fns : Cardinality(WrappersOf(Cur, last.e, "enter", f)) = 1

(* -------------------------------- C23 --------------------------------- *)

\* The members of list that are HTMLElements, in the order of the list.
ValidMembers(list) == SelectSeq(list, IsHTMLElement)

\* The elements among the members of a list.
MembersOf(list) == {list[i] : i \in DOMAIN list}

\* What the module holds for one element: its listeners and its record.
ElementState(S, element) ==
    <<ListenerSet(S, element),
      IF element \in DOMAIN S.boundEvents THEN S.boundEvents[element]
      ELSE Undefined>>

\* C23 as stated: for a collection with a member that is no HTMLElement, the
\* operation is applied to every valid member, before or after that one.
C23_EveryValidMemberProcessed ==
    [][(last'.target.form = "list" /\ HasForeignMember(last'.target.of))
         => Cur' = ApplyInOrder(Cur, ValidMembers(last'.target.of),
                                last'.f, last'.op)]_vars

\* C23, amended: for a collection with a member that is no HTMLElement, the
\* TypeError of that member ends the whole call: the error reaches the
\* caller, the operation has been applied to the members before the first
\* invalid one, and every element that is not among those is left as it was,
\* also when it is a valid member that comes after the invalid one.
C23_HaltsAtFirstInvalidMember ==
    [][(last'.target.form = "list" /\ HasForeignMember(last'.target.of))
         => LET prefix == ValidPrefix(last'.target.of)
            IN  /\ last'.error.name = "TypeError"
                /\ last'.threw
                /\ \A e \in Elements \ MembersOf(prefix) :
                      ElementState(Cur', e) = ElementState(Cur, e)
                /\ \A e \in MembersOf(prefix) :
                      ElementState(Cur', e) =
                        ElementState(ApplyInOrder(Cur, prefix, last'.f,
                                                  last'.op), e)]_vars

\* A bind of a list whose first member is no HTMLElement and whose second
\* member is an element without bindings: the element is left unbound.
C23_Witness ==
    /\ last.op = "activate"
    /\ last.target = ListTarget(<<ForeignNode, "e1">>)
    /\ last.error.name = "TypeError"
    /\ last.applied = <<>>
    /\ ListenerSet(Cur, "e1") = <<{}, {}, {}>>
    /\ "F1" \in click["e2"]

(* -------------------------------- C24 --------------------------------- *)

\* C24: a bind or unbind of a callback on one element leaves the listeners
\* and the registry record of every other element as they were: on every
\* call with a single element as target, and for the per-element operations
\* applied in any reachable state with any callback.
C24_OtherElementsUntouched ==
    [][/\ (last'.op \in {"activate", "deactivate"}
            /\ last'.target.form = "element")
          => \A e2 \in Elements \ {last'.e} :
                ElementState(Cur', e2) = ElementState(Cur, e2)
       /\ \A e1 \in Elements : \A e2 \in Elements \ {e1} : \A f \in Fns :
             /\ ElementState(ActivateSingle(Cur', e1, f), e2)
                   = ElementState(Cur', e2)
             /\ ElementState(DeactivateSingle(Cur', e1, f), e2)
                   = ElementState(Cur', e2)]_vars

\* An unbind that has removed the record of one element, while the other
\* element still has its listeners and its record.
C24_Witness ==
    /\ last.op = "deactivate" /\ last.target = ElementTarget("e1")
    /\ last.wasBound
    /\ tagName["e1"] # "button" /\ tagName["e2"] # "button"
    /\ ~GetElementHasBindings(boundEvents, "e1")
    /\ GetElementHasBindings(boundEvents, "e2")
    /\ PreventSpacebarScroll \in keydown["e2"]

(* -------------------------------- C25 --------------------------------- *)

\* The kinds and numbers of the listeners of an element and the shape of its
\* registry record: the click listeners, how many keyboard listeners of each
\* kind, and which wrappers each recorded Binding has.
Shape(S, element) ==
    [click    |-> S.click[element],
     keyup    |-> [k \in {"space", "enter", "scroll"} |->
                     Cardinality({l \in S.keyup[element] : l.kind = k})],
     keydown  |-> [k \in {"space", "enter", "scroll"} |->
                     Cardinality({l \in S.keydown[element] : l.kind = k})],
     registry |-> IF element \notin DOMAIN S.boundEvents THEN Undefined
                  ELSE [f \in DOMAIN S.boundEvents[element] |->
                          <<S.boundEvents[element][f].spacebarFn # NoFn,
                            S.boundEvents[element][f].enterFn # NoFn>>]]

\* Nothing of the module is attached to or recorded for the element.
Unbound(S, element) ==
    /\ ListenerSet(S, element) = <<{}, {}, {}>>
    /\ ~GetElementHasBindings(S.boundEvents, element)

\* One event of each kind invokes fn once through the listeners of element:
\* a click, for non-buttons a Space keyup, for other than buttons and links
\* an Enter keydown.
InvokedOncePerEvent(S, element, fn) ==
    /\ Calls(S, element, "click", NoKey, fn) = 1
    /\ ~IsButton(element) => Calls(S, element, "keyup", " ", fn) = 1
    /\ IsGeneric(element) => Calls(S, element, "keydown", "Enter", fn) = 1

\* C25: on an element of any class with nothing bound, bind, unbind and bind
\* again of a pair leave the element with the same kinds and numbers of
\* listeners and the same registry shape as a single bind, and a click and
\* the bound keys each invoke the callback once; so does every behaviour in
\* which a pair, the only one of its element, is bound again after an unbind.
C25_RebindAfterUnbind ==
    /\ \A e \in Elements : \A f \in Fns :
          Unbound(Cur, e) =>
             LET once  == ActivateSingle(Cur, e, f)
                 none  == DeactivateSingle(once, e, f)
                 again == ActivateSingle(none, e, f)
             IN  /\ Unbound(none, e)
                 /\ Shape(again, e) = Shape(once, e)
                 /\ InvokedOncePerEvent(again, e, f)
    /\ (/\ last.op = "activate" /\ ~last.wasBound
        /\ <<last.e, last.f>> \in everUnbound
        /\ EverBoundTo(last.e) = {last.f})
          => InvokedOncePerEvent(Cur, last.e, last.f)

\* A pair has been bound again after an unbind, on an element that gets
\* both wrappers.
C25_Witness ==
    /\ last.op = "activate" /\ ~last.wasBound
    /\ <<last.e, last.f>> \in everUnbound
    /\ EverBoundTo(last.e) = {last.f}
    /\ IsGeneric(last.e)
    /\ \E w \in WrappersOf(Cur, last.e, "enter", last.f) : w.id > 2

(* -------------------------------- C26 --------------------------------- *)

\* C26: for every Binding the registry records for a pair (E, F), F is
\* attached as click listener of E, the recorded Space wrapper is attached
\* to E on keyup and is a Space wrapper of F, and the recorded Enter wrapper,
\* when there is one, is attached to E on keydown and is an Enter wrapper
\* of F.
C26_RecordedMeansAttached ==
    \A e \in DOMAIN boundEvents : \A f \in DOMAIN boundEvents[e] :
        LET binding == boundEvents[e][f]
        IN  /\ f \in click[e]
            /\ binding.spacebarFn \in keyup[e]
            /\ binding.spacebarFn.kind = "space"
            /\ binding.spacebarFn.fn = f
            /\ binding.enterFn # NoFn =>
                  /\ binding.enterFn \in keydown[e]
                  /\ binding.enterFn.kind = "enter"
                  /\ binding.enterFn.fn = f

\* The registry records a Binding with both wrappers for each of the two
\* callbacks of an element, after unbinds on that element.
C26_Witness ==
    /\ last.op = "activate"
    /\ IsGeneric(last.e)
    /\ GetElementHasBindings(boundEvents, last.e)
    /\ DOMAIN boundEvents[last.e] = Fns
    /\ \A f \in Fns : boundEvents[last.e][f].enterFn # NoFn
    /\ \E f \in Fns : <<last.e, f>> \in everUnbound

====
